---- MODULE Spec2Model ----
(***************************************************************************)
(* Model of pygmt's Figure.shift_origin (src/pygmt/src/shift_origin.py)    *)
(* and load_earth_geoid (src/pygmt/datasets/earth_geoid.py).               *)
(*                                                                         *)
(* shift_origin is a generator wrapped by contextlib.contextmanager.  The  *)
(* model follows the generator body line by line: one action per           *)
(* statement, with the engine calls (Session open, call_module,            *)
(* get_common) able to raise; closing a session is taken not to raise.     *)
(* An exception that reaches the top level of the script ends the script.  *)
(* Lengths are exact rationals: the origin and every value the engine      *)
(* hands back are counted in 1/127 inch, so that 1 cm = 50 and 1 inch =    *)
(* 127 of these units.                                                     *)
(***************************************************************************)
EXTENDS Integers, Sequences, FiniteSets, TLC

\* ------------------------------------------------------------------ bounds
MaxStmts == 3     \* statements of the script: with-statements, plain calls, plots

\* ------------------------------------------------------- python-side values
\* A caller argument / kwargs value.  kind: "None", "num" (python number),
\* "str" (non-empty string), "estr" (empty string), "absent" (key not in dict).
\* A string is  [w*]w + num/den unit ; a python number n is num = n, den = 1.
Val(k, w, n, d, u) == [kind |-> k, w |-> w, num |-> n, den |-> d, unit |-> u]
None == Val("None", 0, 0, 1, "")
Absent == Val("absent", 0, 0, 1, "")
Num(n) == Val("num", 0, n, 1, "")
Str(w, n, u) == Val("str", w, n, 1, u)
EmptyStr == Val("estr", 0, 0, 1, "")

\* a presence test in place of the truthiness test: `if xshift is not None:`
Truthy_IsNotNone(a) == a.kind # "None"

\* python truthiness of an argument, as `if xshift:` evaluates it
Truthy(a) == \/ a.kind = "str"
             \/ (a.kind = "num" /\ a.num # 0)

\* results of get_common / the local variables saved_xshift, saved_yshift
Unassigned == [tag |-> "unassigned", v |-> 0]
PyFalse == [tag |-> "False", v |-> 0]
Float(n) == [tag |-> "float", v |-> n]       \* n/127 inch
TruthyVal(s) == s.tag = "float" /\ s.v # 0

\* ------------------------------------------------------------ the arguments
\* (xshift, yshift) of a call: (None, None), (0, "1i"), (2, ""), ("w", 3)
ShiftArgs == {<<None, None>>, <<Num(0), Str(0, 1, "i")>>,
              <<Num(2), EmptyStr>>, <<Str(1, 0, ""), Num(3)>>}
PlotWidths == {100}                       \* a 2 cm wide plot

\* --------------------------------------------------------------- the engine
\* length units per unit letter, in 1/127 inch; the default unit is c
UnitScale(u) == IF u = "i" THEN 127 ELSE 50

\* str(value): the text build_arg_string puts after the option letter
TextOf(a) == [w |-> a.w, num |-> a.num, den |-> a.den, unit |-> a.unit]
NoText == [w |-> 0, num |-> 0, den |-> 1, unit |-> ""]

OptOf(kwargs, key) ==
    IF kwargs[key].kind \in {"absent", "None"} THEN <<>>
    ELSE <<[opt |-> key, val |-> TextOf(kwargs[key])]>>

\* build_arg_string(kwargs): "-T -X<val> -Y<val>", keys sorted, unset keys dropped
build_arg_string(kwargs) ==
    (IF kwargs.T THEN <<[opt |-> "T", val |-> NoText]>> ELSE <<>>)
        \o OptOf(kwargs, "X") \o OptOf(kwargs, "Y")

HasOpt(args, o) == \E i \in DOMAIN args : args[i].opt = o
OptVal(args, o) == args[CHOOSE i \in DOMAIN args : args[i].opt = o].val

\* the offset an -X/-Y text stands for: [w-factor * previous plot dimension] + off
ShiftOf(t, dim) == t.w * dim + (t.num * UnitScale(t.unit)) \div t.den

AxisShift(args, o, dim) == IF HasOpt(args, o) THEN ShiftOf(OptVal(args, o), dim) ELSE 0

\* the offsets a command applies on the two axes
Applied(args, dim) == [X |-> AxisShift(args, "X", dim.w), Y |-> AxisShift(args, "Y", dim.h)]

\* call_module("plot", "-T ..."): moves the origin, records the common options
\* of the session; -T plots nothing, so the previous plot's size is unchanged
EngineOrigin(args, org, dim) ==
    [x |-> org.x + Applied(args, dim).X, y |-> org.y + Applied(args, dim).Y]

\* lib.get_common(o) in the session that ran the forward command: False when
\* -o was not given, else the shift the engine applied, in inches
get_common(f, o) == IF HasOpt(f.fwdArgs, o) THEN Float(f.fwdShift[o]) ELSE PyFalse

\* f"{-1.0 * saved}i"
reverse_text(saved) == Val("str", 0, -1 * saved.v, UnitScale("i"), "i")

\* --------------------------------------------------------- load_earth_geoid
\* python values of the three arguments: an argument left out, None, a string
\* (its pieces in order) or a list of numbers
Omitted == [type |-> "omitted", items |-> <<>>]
PyNone == [type |-> "None", items |-> <<>>]
PyStr(s) == [type |-> "str", items |-> <<s>>]
PyList(l) == [type |-> "list", items |-> l]

Resolutions == {"01d", "30m", "20m", "15m", "10m", "06m", "05m", "04m", "03m", "02m", "01m"}
ResolutionArgs == {Omitted} \cup {PyStr(r) : r \in Resolutions \cup {"99x"}}
RegionArgs == {Omitted, PyNone, [type |-> "str", items |-> <<"0", "/", "10", "/", "0", "/", "10">>],
               PyList(<<0, 10, 0, 10>>), PyList(<<10, 20>>)}
RegistrationArgs == {Omitted, PyNone, PyStr("pixel"), PyStr("gridline"), PyStr("bogus")}

\* str(n) for the numbers used
NumStr(n) == CASE n = 0 -> "0" [] n = 10 -> "10" [] n = 20 -> "20" [] OTHER -> "?"

RECURSIVE Join(_)
\* "/".join(str(item) for item in items)
Join(items) ==
    IF items = <<>> THEN <<>>
    ELSE IF Len(items) = 1 THEN <<NumStr(items[1])>>
    ELSE <<NumStr(items[1]), "/">> \o Join(Tail(items))

\* @kwargs_to_strings(region="sequence"): a list/tuple becomes "a/b/c/d";
\* strings and None pass through
kwargs_to_strings(v) == IF v.type = "list" THEN [type |-> "str", items |-> Join(v.items)] ELSE v

\* the parameter's default when the argument is left out
Default(v, d) == IF v.type = "omitted" THEN d ELSE v

\* the call with registration left at the loader's default instead of forwarded
load_earth_geoid_DropsRegistration(resolution, region, registration) ==
    [dataset_name |-> "earth_geoid",
     dataset_prefix |-> "earth_geoid_",
     resolution |-> Default(resolution, PyStr("01d")),
     region |-> kwargs_to_strings(Default(region, PyNone)),
     registration |-> PyNone]

\* lines 61-67: the keyword arguments of the call to _load_remote_dataset
load_earth_geoid(resolution, region, registration) ==
    [dataset_name |-> "earth_geoid",
     dataset_prefix |-> "earth_geoid_",
     resolution |-> Default(resolution, PyStr("01d")),
     region |-> kwargs_to_strings(Default(region, PyNone)),
     registration |-> Default(registration, PyNone)]

NoGeoidCall == [called |-> FALSE, resolution |-> Omitted, region |-> Omitted,
                registration |-> Omitted]
NoResult == [loader |-> "none", caller |-> "none"]

\* --------------------------------------------------------------------- state
VARIABLES
    stack,      \* the live shift_origin generators, outermost first
    origin,     \* the engine's plot origin
    dim,        \* width/height of the previous plot (what w and h stand for)
    log,        \* module invocations issued so far
    uses,       \* shift_origin calls made
    stmts,      \* statements of the script started
    outcome,    \* what the outermost with-statement gave its caller
    last,       \* the generator that finished most recently
    direct,     \* the most recent plain (non-with) call
    gIn,        \* load_earth_geoid: the caller's arguments
    gCall,      \* load_earth_geoid: the call made to _load_remote_dataset
    gRet        \* load_earth_geoid: what the caller got back

vars == <<stack, origin, dim, log, uses, stmts, outcome, last, direct, gIn, gCall, gRet>>
shiftVars == <<stack, origin, dim, log, uses, stmts, outcome, last, direct>>
geoidVars == <<gIn, gCall, gRet>>

NoCall == [id |-> 0, xshift |-> None, yshift |-> None]

Top == stack[Len(stack)]
Running == stack # <<>>
\* where the next statement of the script runs: at top level or in a wrapped block
AtStatement == \/ stack = <<>> /\ outcome \in {"none", "ok"}
               \/ Running /\ Top.pc = "block"

SetTop(f) == stack' = [stack EXCEPT ![Len(stack)] = f]

\* a generator object of shift_origin(xshift=x, yshift=y), not yet started
Frame(id, x, y, org) ==
    [id |-> id, xshift |-> x, yshift |-> y,
     kwargs |-> [T |-> FALSE, X |-> Absent, Y |-> Absent],
     saved_xshift |-> Unassigned, saved_yshift |-> Unassigned,
     pc |-> "start", exc |-> "none",
     lib |-> FALSE, rlib |-> FALSE,
     \* history, for stating the properties
     origin0 |-> org, err |-> "none", blockExc |-> "none", revErr |-> "none",
     fwdArgs |-> <<>>, revArgs |-> <<>>, fwdIssued |-> 0, revIssued |-> 0,
     fwdShift |-> [X |-> 0, Y |-> 0], revShift |-> [X |-> 0, Y |-> 0],
     yielded |-> FALSE, hadChild |-> FALSE,
     excOut |-> "none", origin1 |-> org]

NewFrame(id, x, y) == Frame(id, x, y, origin)
NoFrame == Frame(0, None, None, [x |-> 0, y |-> 0])

Init ==
    /\ stack = <<>>
    /\ origin = [x |-> 0, y |-> 0]
    /\ dim = [w |-> 0, h |-> 0]
    /\ log = <<>>
    /\ uses = 0
    /\ stmts = 0
    /\ outcome = "none"
    /\ last = NoFrame
    /\ direct = NoCall
    /\ gIn = NoGeoidCall
    /\ gCall = <<>>
    /\ gRet = NoResult

\* the generator ends (returns or raises e): control goes back to the with-statement
Finish(f, e) ==
    LET g == [f EXCEPT !.pc = "done", !.excOut = e, !.exc = e, !.origin1 = origin] IN
    /\ last' = g
    /\ IF Len(stack) = 1
       THEN /\ stack' = <<>>
            /\ outcome' = IF e = "none" THEN "ok" ELSE e
       ELSE LET p == stack[Len(stack) - 1]
                q == IF e = "none"
                     THEN [p EXCEPT !.hadChild = TRUE]
                     ELSE [p EXCEPT !.hadChild = TRUE, !.pc = "close_fwd",
                                    !.exc = e, !.blockExc = e]
            IN /\ stack' = Append(SubSeq(stack, 1, Len(stack) - 2), q)
               /\ UNCHANGED outcome

\* ------------------------------------------------------------- shift_origin
\* `with fig.shift_origin(xshift=x, yshift=y):` -- __enter__ starts the generator
Enter(x, y) ==
    /\ AtStatement
    /\ stmts < MaxStmts
    /\ stmts' = stmts + 1
    /\ uses' = uses + 1
    /\ stack' = Append(stack, NewFrame(uses + 1, x, y))
    /\ outcome' = "none"
    /\ UNCHANGED <<origin, dim, log, last, direct>>
    /\ UNCHANGED geoidVars

\* `fig.shift_origin(xshift=x, yshift=y)` as a plain call: contextmanager returns
\* the manager object; the generator body is never started
DirectCall(x, y) ==
    /\ AtStatement
    /\ stmts < MaxStmts
    /\ stmts' = stmts + 1
    /\ uses' = uses + 1
    /\ direct' = [id |-> uses + 1, xshift |-> x, yshift |-> y]
    /\ UNCHANGED <<stack, origin, dim, log, outcome, last>>
    /\ UNCHANGED geoidVars

\* lines 64-70: self._preprocess(); kwargs = {"T": True}; if xshift: ...; if yshift: ...
BuildKwargs ==
    /\ Running /\ Top.pc = "start"
    /\ SetTop([Top EXCEPT !.pc = "open",
                          !.kwargs = [T |-> TRUE,
                                      X |-> IF Truthy(Top.xshift) THEN Top.xshift ELSE Absent,
                                      Y |-> IF Truthy(Top.yshift) THEN Top.yshift ELSE Absent]])
    /\ UNCHANGED <<origin, dim, log, uses, stmts, outcome, last, direct>>
    /\ UNCHANGED geoidVars

\* line 64 raises: nothing of the try statement has run
PreprocessFail ==
    /\ Running /\ Top.pc = "start"
    /\ Finish(Top, "E_preprocess")
    /\ UNCHANGED <<origin, dim, log, uses, stmts, direct>>
    /\ UNCHANGED geoidVars

\* line 73: with Session() as lib
OpenForward ==
    /\ Running /\ Top.pc = "open"
    /\ SetTop([Top EXCEPT !.pc = "call", !.lib = TRUE])
    /\ UNCHANGED <<origin, dim, log, uses, stmts, outcome, last, direct>>
    /\ UNCHANGED geoidVars

OpenForwardFail ==
    /\ Running /\ Top.pc = "open"
    /\ SetTop([Top EXCEPT !.pc = "finally", !.exc = "E_open", !.err = "E_open"])
    /\ UNCHANGED <<origin, dim, log, uses, stmts, outcome, last, direct>>
    /\ UNCHANGED geoidVars

\* line 74: lib.call_module(module="plot", args=build_arg_string(kwargs))
CallForward ==
    /\ Running /\ Top.pc = "call"
    /\ LET args == build_arg_string(Top.kwargs) IN
       /\ origin' = EngineOrigin(args, origin, dim)
       /\ log' = Append(log, [id |-> Top.id, kind |-> "forward", args |-> args, at |-> origin])
       /\ SetTop([Top EXCEPT !.pc = "getx", !.fwdArgs = args, !.fwdIssued = @ + 1,
                             !.fwdShift = Applied(args, dim)])
    /\ UNCHANGED <<dim, uses, stmts, outcome, last, direct>>
    /\ UNCHANGED geoidVars

CallForwardFail ==
    /\ Running /\ Top.pc = "call"
    /\ SetTop([Top EXCEPT !.pc = "close_fwd", !.exc = "E_call", !.err = "E_call"])
    /\ UNCHANGED <<origin, dim, log, uses, stmts, outcome, last, direct>>
    /\ UNCHANGED geoidVars

\* line 75: saved_xshift = lib.get_common("X")
GetCommonX ==
    /\ Running /\ Top.pc = "getx"
    /\ SetTop([Top EXCEPT !.pc = "gety",
                          !.saved_xshift = get_common(Top, "X")])
    /\ UNCHANGED <<origin, dim, log, uses, stmts, outcome, last, direct>>
    /\ UNCHANGED geoidVars

GetCommonXFail ==
    /\ Running /\ Top.pc = "getx"
    /\ SetTop([Top EXCEPT !.pc = "close_fwd", !.exc = "E_getX", !.err = "E_getX"])
    /\ UNCHANGED <<origin, dim, log, uses, stmts, outcome, last, direct>>
    /\ UNCHANGED geoidVars

\* line 76: saved_yshift = lib.get_common("Y")
GetCommonY ==
    /\ Running /\ Top.pc = "gety"
    /\ SetTop([Top EXCEPT !.pc = "yield",
                          !.saved_yshift = get_common(Top, "Y")])
    /\ UNCHANGED <<origin, dim, log, uses, stmts, outcome, last, direct>>
    /\ UNCHANGED geoidVars

GetCommonYFail ==
    /\ Running /\ Top.pc = "gety"
    /\ SetTop([Top EXCEPT !.pc = "close_fwd", !.exc = "E_getY", !.err = "E_getY"])
    /\ UNCHANGED <<origin, dim, log, uses, stmts, outcome, last, direct>>
    /\ UNCHANGED geoidVars

\* line 77: yield, inside `with Session() as lib` -- control goes to the wrapped block
Yield ==
    /\ Running /\ Top.pc = "yield"
    /\ SetTop([Top EXCEPT !.pc = "block", !.yielded = TRUE])
    /\ UNCHANGED <<origin, dim, log, uses, stmts, outcome, last, direct>>
    /\ UNCHANGED geoidVars

\* the wrapped block ends normally: __exit__ resumes the generator after the yield
BlockExit ==
    /\ Running /\ Top.pc = "block"
    /\ SetTop([Top EXCEPT !.pc = "close_fwd"])
    /\ UNCHANGED <<origin, dim, log, uses, stmts, outcome, last, direct>>
    /\ UNCHANGED geoidVars

\* the yield placed outside the try statement: an exception thrown in at the
\* yield ends the generator at once, the finally clause does not cover it
BlockRaise_YieldOutsideTry ==
    /\ Running /\ Top.pc = "block"
    /\ Finish([Top EXCEPT !.blockExc = "E_block"], "E_block")
    /\ UNCHANGED <<origin, dim, log, uses, stmts, direct>>
    /\ UNCHANGED geoidVars

\* the wrapped block raises: __exit__ throws the exception in at the yield
BlockRaise ==
    /\ Running /\ Top.pc = "block"
    /\ SetTop([Top EXCEPT !.pc = "close_fwd", !.exc = "E_block", !.blockExc = "E_block"])
    /\ UNCHANGED <<origin, dim, log, uses, stmts, outcome, last, direct>>
    /\ UNCHANGED geoidVars

\* leaving `with Session() as lib` (line 73), normally or by exception
CloseForward ==
    /\ Running /\ Top.pc = "close_fwd"
    /\ SetTop([Top EXCEPT !.pc = "finally", !.lib = FALSE])
    /\ UNCHANGED <<origin, dim, log, uses, stmts, outcome, last, direct>>
    /\ UNCHANGED geoidVars

\* lines 79-82: if saved_xshift: kwargs["X"] = ...; if saved_yshift: kwargs["Y"] = ...
Finally ==
    /\ Running /\ Top.pc = "finally"
    /\ Top.saved_xshift # Unassigned /\ Top.saved_yshift # Unassigned
    /\ SetTop([Top EXCEPT !.pc = "ropen",
                  !.kwargs = [T |-> Top.kwargs.T,
                              X |-> IF TruthyVal(Top.saved_xshift)
                                    THEN reverse_text(Top.saved_xshift) ELSE Top.kwargs.X,
                              Y |-> IF TruthyVal(Top.saved_yshift)
                                    THEN reverse_text(Top.saved_yshift) ELSE Top.kwargs.Y]])
    /\ UNCHANGED <<origin, dim, log, uses, stmts, outcome, last, direct>>
    /\ UNCHANGED geoidVars

\* lines 79/81 read a local that was never assigned: UnboundLocalError
FinallyUnbound ==
    /\ Running /\ Top.pc = "finally"
    /\ Top.saved_xshift = Unassigned \/ Top.saved_yshift = Unassigned
    /\ Finish(Top, "UnboundLocalError")
    /\ UNCHANGED <<origin, dim, log, uses, stmts, direct>>
    /\ UNCHANGED geoidVars

\* line 83: with Session() as lib
OpenReverse ==
    /\ Running /\ Top.pc = "ropen"
    /\ SetTop([Top EXCEPT !.pc = "rcall", !.rlib = TRUE])
    /\ UNCHANGED <<origin, dim, log, uses, stmts, outcome, last, direct>>
    /\ UNCHANGED geoidVars

OpenReverseFail ==
    /\ Running /\ Top.pc = "ropen"
    /\ Finish([Top EXCEPT !.revErr = "E_ropen"], "E_ropen")
    /\ UNCHANGED <<origin, dim, log, uses, stmts, direct>>
    /\ UNCHANGED geoidVars

\* line 84: lib.call_module(module="plot", args=build_arg_string(kwargs))
CallReverse ==
    /\ Running /\ Top.pc = "rcall"
    /\ LET args == build_arg_string(Top.kwargs) IN
       /\ origin' = EngineOrigin(args, origin, dim)
       /\ log' = Append(log, [id |-> Top.id, kind |-> "reverse", args |-> args, at |-> origin])
       /\ SetTop([Top EXCEPT !.pc = "rclose", !.revArgs = args, !.revIssued = @ + 1,
                             !.revShift = Applied(args, dim)])
    /\ UNCHANGED <<dim, uses, stmts, outcome, last, direct>>
    /\ UNCHANGED geoidVars

CallReverseFail ==
    /\ Running /\ Top.pc = "rcall"
    /\ SetTop([Top EXCEPT !.pc = "rclose", !.exc = "E_rcall", !.revErr = "E_rcall",
                          !.revArgs = build_arg_string(Top.kwargs), !.revIssued = @ + 1])
    /\ UNCHANGED <<origin, dim, log, uses, stmts, outcome, last, direct>>
    /\ UNCHANGED geoidVars

\* leaving the second `with Session() as lib`; the generator ends
CloseReverse ==
    /\ Running /\ Top.pc = "rclose"
    /\ Finish([Top EXCEPT !.rlib = FALSE], Top.exc)
    /\ UNCHANGED <<origin, dim, log, uses, stmts, direct>>
    /\ UNCHANGED geoidVars

\* any other plotting command of the script (fig.basemap(...)), w wide
Plot(w) ==
    /\ AtStatement
    /\ stmts < MaxStmts
    /\ stmts' = stmts + 1
    /\ dim' = [w |-> w, h |-> w]
    /\ log' = Append(log, [id |-> 0, kind |-> "plot", args |-> <<>>, at |-> origin])
    /\ UNCHANGED <<stack, origin, uses, outcome, last, direct>>
    /\ UNCHANGED geoidVars

Next ==
    \/ \E a \in ShiftArgs : Enter(a[1], a[2])
    \/ \E a \in ShiftArgs : DirectCall(a[1], a[2])
    \/ BuildKwargs
    \/ PreprocessFail
    \/ OpenForward
    \/ OpenForwardFail
    \/ CallForward
    \/ CallForwardFail
    \/ GetCommonX
    \/ GetCommonXFail
    \/ GetCommonY
    \/ GetCommonYFail
    \/ Yield
    \/ BlockExit
    \/ BlockRaise
    \/ CloseForward
    \/ Finally
    \/ FinallyUnbound
    \/ OpenReverse
    \/ OpenReverseFail
    \/ CallReverse
    \/ CallReverseFail
    \/ CloseReverse
    \/ \E w \in PlotWidths : Plot(w)

Spec == Init /\ [][Next]_vars

\* ------------------------------------------------ load_earth_geoid, steps
\* load_earth_geoid(...) is called and reaches the call of line 61
GeoidCall(res, region, reg) ==
    /\ ~gIn.called
    /\ gIn' = [called |-> TRUE, resolution |-> res, region |-> region, registration |-> reg]
    /\ gCall' = Append(gCall, load_earth_geoid(res, region, reg))
    /\ gRet' = [loader |-> "running", caller |-> "none"]
    /\ UNCHANGED shiftVars

\* _load_remote_dataset returns a grid; line 68 returns it
LoaderReturns ==
    /\ gRet.loader = "running"
    /\ gRet' = [loader |-> "grid", caller |-> "grid"]
    /\ UNCHANGED <<gIn, gCall>>
    /\ UNCHANGED shiftVars

\* _load_remote_dataset raises; nothing catches it
LoaderRaises ==
    /\ gRet.loader = "running"
    /\ gRet' = [loader |-> "error", caller |-> "error"]
    /\ UNCHANGED <<gIn, gCall>>
    /\ UNCHANGED shiftVars

NextGeoid ==
    \/ \E res \in ResolutionArgs, region \in RegionArgs, reg \in RegistrationArgs :
           GeoidCall(res, region, reg)
    \/ LoaderReturns
    \/ LoaderRaises

SpecGeoid == Init /\ [][NextGeoid]_vars

\* ---------------------------------------------------------------- properties
Live == {stack[i] : i \in DOMAIN stack}
Started == Live \cup (IF last.id # 0 THEN {last} ELSE {})
Axes == {"X", "Y"}
saved(f, o) == IF o = "X" THEN f.saved_xshift ELSE f.saved_yshift
arg(f, o) == IF o = "X" THEN f.xshift ELSE f.yshift
EngineFailures == {"E_open", "E_call", "E_getX", "E_getY"}
\* the use ran from entry to exit with no exception and no engine failure
Clean(f) == /\ f.pc = "done" /\ f.yielded
            /\ f.err = "none" /\ f.blockExc = "none" /\ f.revErr = "none"
            /\ f.excOut = "none"

\* C1: a plain call fig.shift_origin(xshift=..., yshift=...) issues the forward
\* plot invocation carrying the requested shift, and no reversing invocation
\* follows it.
C1_DirectCallIssuesForward ==
    direct.id # 0 =>
        /\ \E i \in DOMAIN log : /\ log[i].id = direct.id
                                 /\ log[i].kind = "forward"
                                 /\ log[i].args =
                                      build_arg_string([T |-> TRUE,
                                          X |-> IF Truthy(direct.xshift) THEN direct.xshift ELSE Absent,
                                          Y |-> IF Truthy(direct.yshift) THEN direct.yshift ELSE Absent])
        /\ ~\E i \in DOMAIN log : log[i].id = direct.id /\ log[i].kind = "reverse"

\* C2: when the wrapped block of a with-statement exits normally (and no engine
\* call fails), the reverse invocation offsets each axis by the negative of the
\* shift recorded for the forward invocation, so the origin after the
\* with-statement is the origin before it.
C2_NetDisplacementZero ==
    (last.id # 0 /\ Clean(last) /\ ~last.hadChild) =>
        /\ last.origin1 = last.origin0
        /\ \A o \in Axes :
             /\ saved(last, o).tag = "float" => last.revShift[o] = -1 * saved(last, o).v
             /\ last.revShift[o] = -1 * last.fwdShift[o]

\* C3 as stated: if the wrapped block raises, the reverse invocation is issued
\* exactly once and the same exception propagates to the caller.
C3_BlockExceptionAlwaysPropagates ==
    (last.id # 0 /\ last.blockExc # "none") =>
        /\ last.revIssued = 1
        /\ last.excOut = last.blockExc

\* C3 (amended): if the wrapped block raises, the reverse session is opened
\* only after the forward session is closed and the reverse invocation is
\* issued at most once; when the reverse session opens and its call_module
\* returns, the invocation was issued exactly once and the block's own
\* exception propagates; when the reverse session or call raises, that engine
\* error is what the caller sees.
C3_ReverseOnBlockException ==
    /\ \A f \in Live :
         (f.blockExc # "none" /\ f.pc \in {"ropen", "rcall", "rclose"}) =>
             ~f.lib /\ f.revIssued <= 1
    /\ (last.id # 0 /\ last.blockExc # "none") =>
         /\ ~last.lib
         /\ last.revErr = "none" => (last.revIssued = 1 /\ last.excOut = last.blockExc)
         /\ last.revErr # "none" => (last.revIssued <= 1 /\ last.excOut = last.revErr)

C3_Witness ==
    /\ last.id # 0 /\ last.blockExc = "E_block"
    /\ last.revIssued = 1 /\ last.excOut = "E_block"
    /\ \E i \in DOMAIN log : log[i].id = last.id /\ log[i].kind = "reverse"

\* C4: once the try statement has been entered, the reverse command is issued
\* on every exit path of the generator, error paths included (the reverse
\* session itself being able to open).
C4_ReverseOnEveryExitPath ==
    (last.id # 0 /\ last.excOut # "E_preprocess" /\ last.revErr # "E_ropen") =>
        last.revIssued >= 1

\* C5 as stated: the single loader call carries the caller's resolution, region
\* and registration (defaults "01d", None, None) unaltered.
C5_RegionForwardedUnaltered ==
    gIn.called =>
        /\ Len(gCall) = 1
        /\ gCall[1].region.type = Default(gIn.region, PyNone).type
        /\ gCall[1].region.items = Default(gIn.region, PyNone).items

\* C5 (amended): load_earth_geoid makes exactly one loader call, with
\* dataset_name "earth_geoid", dataset_prefix "earth_geoid_", the caller's
\* resolution (default "01d") and registration (default None) unaltered, and
\* the caller's region (default None) unaltered when it is None or a string
\* and as the "/"-joined string of its items when it is a list; the caller
\* gets the loader's grid, or the loader's error, unchanged.
C5_PassThrough ==
    gIn.called =>
        /\ Len(gCall) = 1
        /\ gCall[1].dataset_name = "earth_geoid"
        /\ gCall[1].dataset_prefix = "earth_geoid_"
        /\ gCall[1].resolution =
             (IF gIn.resolution.type = "omitted" THEN PyStr("01d") ELSE gIn.resolution)
        /\ gCall[1].registration =
             (IF gIn.registration.type = "omitted" THEN PyNone ELSE gIn.registration)
        /\ gIn.region.type = "omitted" => gCall[1].region = PyNone
        /\ gIn.region.type \in {"None", "str"} => gCall[1].region = gIn.region
        /\ gIn.region.type = "list" =>
             /\ gCall[1].region.type = "str"
             /\ Len(gCall[1].region.items) = 2 * Len(gIn.region.items) - 1
             /\ \A i \in DOMAIN gIn.region.items :
                   gCall[1].region.items[2 * i - 1] = NumStr(gIn.region.items[i])
             /\ \A i \in 1 .. (Len(gIn.region.items) - 1) :
                   gCall[1].region.items[2 * i] = "/"
        /\ gRet.loader \in {"grid", "error"} => gRet.caller = gRet.loader

C5_Witness ==
    /\ gIn.called /\ gIn.region.type = "list" /\ gIn.registration = PyStr("gridline")
    /\ gCall[1].region.type = "str" /\ gRet.caller = "grid"

\* C6 as stated: the forward command holds T, an X option exactly when xshift
\* is not None, a Y option exactly when yshift is not None, each with the
\* caller's value, and nothing else.
C6_OptionIffNotNone ==
    \A f \in Started : f.fwdIssued > 0 =>
        /\ HasOpt(f.fwdArgs, "T")
        /\ \A i \in DOMAIN f.fwdArgs : f.fwdArgs[i].opt \in {"T", "X", "Y"}
        /\ \A o \in Axes :
             /\ HasOpt(f.fwdArgs, o) <=> arg(f, o).kind # "None"
             /\ HasOpt(f.fwdArgs, o) => OptVal(f.fwdArgs, o) = TextOf(arg(f, o))

\* C6 (amended): the forward command always holds T, holds an X option with
\* the caller's value exactly when xshift is neither None, nor a numeric zero,
\* nor the empty string, likewise Y for yshift, and holds nothing else; a
\* call with neither argument issues the command with T alone.
C6_OptionIffTruthy ==
    \A f \in Started : f.fwdIssued > 0 =>
        /\ HasOpt(f.fwdArgs, "T")
        /\ \A i \in DOMAIN f.fwdArgs : f.fwdArgs[i].opt \in {"T", "X", "Y"}
        /\ \A o \in Axes :
             /\ HasOpt(f.fwdArgs, o) <=>
                  ~ \/ arg(f, o).kind = "None"
                    \/ arg(f, o).kind = "estr"
                    \/ (arg(f, o).kind = "num" /\ arg(f, o).num = 0)
             /\ HasOpt(f.fwdArgs, o) => OptVal(f.fwdArgs, o) = TextOf(arg(f, o))
        /\ (f.xshift = None /\ f.yshift = None) => Len(f.fwdArgs) = 1

C6_Witness ==
    \E f \in Started :
        /\ f.fwdIssued > 0 /\ f.xshift = Num(0) /\ ~HasOpt(f.fwdArgs, "X")
        /\ HasOpt(f.fwdArgs, "Y") /\ HasOpt(f.fwdArgs, "T")

\* C7: when the forward session open, the forward call_module or get_common
\* raises an error E, the error the caller of shift_origin observes is E.
C7_EngineErrorPropagates ==
    (last.id # 0 /\ last.err \in EngineFailures) => last.excOut = last.err

\* C8: the session opened for the forward command is closed before control is
\* handed to the wrapped block, and no two sessions of one shift_origin use are
\* open at once.
C8_NoSessionHeldInBlock ==
    \A f \in Live :
        /\ f.pc = "block" => ~f.lib
        /\ ~(f.lib /\ f.rlib)

\* C9: whenever the reverse command is issued, each axis option it carries is
\* the negation of the value saved from the forward command, in inches, and an
\* axis with no saved value (get_common gave False or 0) carries no option.
C9_ReverseCarriesOnlyNegations ==
    \A f \in Started : f.revIssued > 0 =>
        \A o \in Axes :
            IF TruthyVal(saved(f, o))
            THEN /\ HasOpt(f.revArgs, o)
                 /\ OptVal(f.revArgs, o) = TextOf(reverse_text(saved(f, o)))
            ELSE ~HasOpt(f.revArgs, o)

\* C10: for nested with-statements the reverse commands are issued in the
\* opposite order of the forward commands, and after the outermost block exits
\* the origin is the origin before the outermost block was entered.
C10_NestingRestoresOrigin ==
    /\ \A i, j, k, l \in DOMAIN log :
         (/\ log[i].kind = "forward" /\ log[j].kind = "forward"
          /\ log[k].kind = "reverse" /\ log[l].kind = "reverse"
          /\ log[k].id = log[i].id /\ log[l].id = log[j].id
          /\ i < j /\ j < k) => l < k
    /\ (stack = <<>> /\ last.id # 0 /\ Clean(last) /\ last.hadChild
          /\ outcome = "ok") =>
         origin = last.origin0

====
